---- MODULE Spec2Model ----
(***************************************************************************)
(* A model of sbommerge/cli.py: main() validates the two file arguments,   *)
(* parses both SBOMs, merges files and packages, synthesises the root      *)
(* package, rebuilds the relationships and returns the difference signal.  *)
(*                                                                         *)
(* Names are sequences of one-character strings so that Path.name and      *)
(* str.replace can be computed.  A Python value that may be None is        *)
(* written <<>> (None) or <<v>> (the value v).  A dict is a function whose *)
(* DOMAIN is the set of its keys; a dict whose iteration order matters      *)
(* (the merged collections) is a sequence of [key, val] entries in          *)
(* insertion order.                                                        *)
(***************************************************************************)
EXTENDS Integers, Sequences, FiniteSets, TLC

\* Bound: total number of file, package and relationship records in the two
\* input documents together.
MaxItems == 3

\* Bound: the same total for the documents of SpecGraph, which draws its
\* records from the smaller pools below so that both documents can carry
\* relationships that resolve.
MaxGraphItems == 6

NOASSERTION == "NOASSERTION"
None == <<>>
Some(v) == <<v>>

-----------------------------------------------------------------------------
(* Input domains *)

PathA == <<"x", ".", "j">>
PathB == <<"d", "/", "y", ".", "j">>
Paths == {PathA, PathB}

NameA == <<"a">>
NameB == <<"b">>
NameF == <<"f">>
NameZ == <<"z">>

FilePool ==
  { [name |-> NameF],
    [name |-> NameF, licenseconcluded |-> NOASSERTION],
    [name |-> NameF, licenseconcluded |-> "MIT"],
    [name |-> NameA] }

PackagePool ==
  { [name |-> NameA],
    [name |-> NameA, version |-> "1.0"],
    [name |-> NameA, version |-> "1.0", licensedeclared |-> NOASSERTION],
    [name |-> NameA, version |-> "1.0", licensedeclared |-> "MIT"],
    [name |-> NameA, version |-> "1.0", licensedeclared |-> "Apache-2.0"],
    [name |-> NameA, version |-> "2.0"],
    [name |-> NameB, version |-> "1.0"] }

RelationshipPool ==
  { [source |-> s, type |-> "DEPENDS_ON", target |-> t] :
      <<s, t>> \in { <<NameA, NameB>>, <<NameB, NameA>>, <<NameA, NameA>>,
                     <<NameA, NameF>>, <<NameF, NameA>>, <<NameF, NameF>>,
                     <<NameA, NameZ>> } }

GraphFilePool == { [name |-> NameF] }

GraphPackagePool ==
  { [name |-> NameA],
    [name |-> NameA, version |-> "1.0"] }

GraphRelationshipPool ==
  { [source |-> s, type |-> "DEPENDS_ON", target |-> t] :
      <<s, t>> \in { <<NameF, NameA>>, <<NameA, NameF>>, <<NameA, NameZ>> } }

SeqsUpTo(S, n) == UNION { [1..k -> S] : k \in 0..n }

EmptyDocument == [files |-> <<>>, packages |-> <<>>, relationships |-> <<>>]

-----------------------------------------------------------------------------
(* Helpers: dicts, lib4sbom record objects *)

Range(s) == { s[i] : i \in 1..Len(s) }

\* SBOMFile.set_value / SBOMPackage.set_value
SetValue(rec, k, v) ==
  [x \in DOMAIN rec \cup {k} |-> IF x = k THEN v ELSE rec[x]]

\* SBOMPackage.get_value / get_name: dict.get(attribute, None)
GetValue(rec, k) == IF k \in DOMAIN rec THEN Some(rec[k]) ELSE None

\* d[key] = val on a dict that keeps insertion order
RECURSIVE Put(_, _, _)
Put(d, key, val) ==
  IF d = <<>> THEN << [key |-> key, val |-> val] >>
  ELSE IF Head(d).key = key
       THEN << [key |-> key, val |-> val] >> \o Tail(d)
       ELSE << Head(d) >> \o Put(Tail(d), key, val)

ZeroCounters == [identical |-> 0, updated |-> 0, additional |-> 0, merged |-> 0]

\* The resolution rule of a differing attribute: p1 unless it is NOASSERTION
ResolveValue(p1, p2) == IF p1 = NOASSERTION THEN p2 ELSE p1

\* The two "for param in ..." loops over a matched pair (r1 of the first
\* document, r2 of the second), applied to the record object being built.
ReconcileRecord(acc, r1, r2) ==
  [x \in DOMAIN acc \cup DOMAIN r1 \cup DOMAIN r2 |->
     IF x \in DOMAIN r1
     THEN IF x \in DOMAIN r2
          THEN IF r1[x] = r2[x] THEN r1[x] ELSE ResolveValue(r1[x], r2[x])
          ELSE r1[x]
     ELSE IF x \in DOMAIN r2 THEN r2[x] ELSE acc[x]]

\* The counters the same loops increment
ReconcileCount(cnt, r1, r2) ==
  LET both == DOMAIN r1 \cap DOMAIN r2
  IN  [cnt EXCEPT
        !.identical  = @ + Cardinality({x \in both : r1[x] = r2[x]}),
        !.updated    = @ + Cardinality({x \in both : r1[x] # r2[x]}),
        !.additional = @ + Cardinality(DOMAIN r1 \ DOMAIN r2)]

-----------------------------------------------------------------------------
(* Files *)

\* for file2 in files2: if file2["name"] == file["name"]: ...
RECURSIVE MergeFileMatches(_, _, _, _)
MergeFileMatches(file, fs2, acc, cnt) ==
  IF fs2 = <<>> THEN [rec |-> acc, cnt |-> cnt]
  ELSE IF Head(fs2)["name"] = file["name"]
       THEN MergeFileMatches(file, Tail(fs2),
                             ReconcileRecord(acc, file, Head(fs2)),
                             ReconcileCount(cnt, file, Head(fs2)))
       ELSE MergeFileMatches(file, Tail(fs2), acc, cnt)

\* One iteration of "for file in files1"
FileOfFirst(file, fs2, cnt) ==
  IF file \in Range(fs2)
  THEN MergeFileMatches(file, fs2, <<>>, cnt)
  ELSE [rec |-> file, cnt |-> [cnt EXCEPT !.merged = @ + 1]]

RECURSIVE FilesOfFirst(_, _, _, _)
FilesOfFirst(fs1, fs2, fls, cnt) ==
  IF fs1 = <<>> THEN [files |-> fls, cnt |-> cnt]
  ELSE LET m == FileOfFirst(Head(fs1), fs2, cnt)
       IN  FilesOfFirst(Tail(fs1), fs2,
                        Put(fls, GetValue(m.rec, "name"), m.rec), m.cnt)

\* Variant: the files of the second document are never stored
FilesOfSecondUnmerged(fs2, fs1, fls, cnt) == [files |-> fls, cnt |-> cnt]

\* "for file in files2"
RECURSIVE FilesOfSecond(_, _, _, _)
FilesOfSecond(fs2, fs1, fls, cnt) ==
  IF fs2 = <<>> THEN [files |-> fls, cnt |-> cnt]
  ELSE LET file == Head(fs2)
       IN  IF Len(fs1) > 0
           THEN IF file \notin Range(fs1)
                THEN FilesOfSecond(Tail(fs2), fs1,
                                   Put(fls, GetValue(file, "name"), file),
                                   [cnt EXCEPT !.merged = @ + 1])
                ELSE FilesOfSecond(Tail(fs2), fs1, fls, cnt)
           ELSE FilesOfSecond(Tail(fs2), fs1,
                              Put(fls, GetValue(file, "name"), file),
                              [cnt EXCEPT !.identical = @ + 1])

-----------------------------------------------------------------------------
(* Packages *)

PackageKey(rec) == << GetValue(rec, "name"), GetValue(rec, "version") >>

VersionMismatch(package, package2) ==
  /\ "version" \in DOMAIN package
  /\ "version" \in DOMAIN package2
  /\ package["version"] # package2["version"]

MismatchMessage(package, package2) ==
  << "[ERROR] Version mismatch for", package["name"],
     package["version"], package2["version"] >>

\* for package2 in packages2: if package2["name"] == package["name"]: ...
RECURSIVE MergePackageMatches(_, _, _, _, _)
MergePackageMatches(package, ps2, acc, cnt, log) ==
  IF ps2 = <<>> THEN [rec |-> acc, cnt |-> cnt, log |-> log]
  ELSE IF Head(ps2)["name"] = package["name"]
       THEN IF VersionMismatch(package, Head(ps2))
            THEN MergePackageMatches(package, Tail(ps2), acc, cnt,
                     Append(log, MismatchMessage(package, Head(ps2))))
            ELSE MergePackageMatches(package, Tail(ps2),
                     ReconcileRecord(acc, package, Head(ps2)),
                     ReconcileCount(cnt, package, Head(ps2)), log)
       ELSE MergePackageMatches(package, Tail(ps2), acc, cnt, log)

\* One iteration of "for package in packages1"
PackageOfFirst(package, ps2, cnt, log) ==
  IF package \in Range(ps2)
  THEN MergePackageMatches(package, ps2, <<>>, cnt, log)
  ELSE [rec |-> package, cnt |-> [cnt EXCEPT !.merged = @ + 1], log |-> log]

RECURSIVE PackagesOfFirst(_, _, _, _, _)
PackagesOfFirst(ps1, ps2, pkgs, cnt, log) ==
  IF ps1 = <<>> THEN [packages |-> pkgs, cnt |-> cnt, log |-> log]
  ELSE LET m == PackageOfFirst(Head(ps1), ps2, cnt, log)
       IN  PackagesOfFirst(Tail(ps1), ps2,
                           Put(pkgs, PackageKey(m.rec), m.rec), m.cnt, m.log)

\* "for package in packages2"
RECURSIVE PackagesOfSecond(_, _, _, _)
PackagesOfSecond(ps2, ps1, pkgs, cnt) ==
  IF ps2 = <<>> THEN [packages |-> pkgs, cnt |-> cnt]
  ELSE LET package == Head(ps2)
       IN  IF package \notin Range(ps1)
           THEN PackagesOfSecond(Tail(ps2), ps1,
                                 Put(pkgs, PackageKey(package), package),
                                 [cnt EXCEPT !.merged = @ + 1])
           ELSE PackagesOfSecond(Tail(ps2), ps1, pkgs, cnt)

-----------------------------------------------------------------------------
(* Root package *)

\* Path(p).name: the part after the last "/"
RECURSIVE PathName(_)
PathName(p) ==
  IF \E i \in 1..Len(p) : p[i] = "/" THEN PathName(Tail(p)) ELSE p

\* str.replace('.', '-')
ReplaceDots(s) == [i \in 1..Len(s) |-> IF s[i] = "." THEN "-" ELSE s[i]]

MergeToolPrefix == <<"M", "E", "R", "G", "E", "T", "O", "O", "L", "-">>
SbomPrefix == <<"S", "B", "O", "M", "-">>

RootPackageName(file1, file2) ==
  MergeToolPrefix \o ReplaceDots(PathName(file1)) \o <<"-">>
                  \o ReplaceDots(PathName(file2))

ParentName(file1, file2) == SbomPrefix \o RootPackageName(file1, file2)

RootPackage(file1, file2) ==
  [ name |-> RootPackageName(file1, file2),
    type |-> "application",
    filesanalysis |-> FALSE,
    licensedeclared |-> NOASSERTION,
    licenseconcluded |-> NOASSERTION,
    supplier_type |-> "UNKNOWN",
    supplier |-> NOASSERTION ]

\* SBOMRelationship.set_relationship on an initialised object
Relationship(source, type, target) ==
  [source |-> source, type |-> type, target |-> target]

-----------------------------------------------------------------------------
(* Relationships *)

NoEnds == [source |-> None, target |-> None,
           source_type |-> "package", target_type |-> "package"]

\* for f in files: if f["name"] == r["source"]: ... elif f["name"] == r["target"]: ...
RECURSIVE ScanFiles(_, _, _)
ScanFiles(r, fs, ends) ==
  IF fs = <<>> THEN ends
  ELSE LET n == Head(fs)["name"]
       IN  ScanFiles(r, Tail(fs),
             IF n = r.source
             THEN [ends EXCEPT !.source = Some(n), !.source_type = "file"]
             ELSE IF n = r.target
                  THEN [ends EXCEPT !.target = Some(n), !.target_type = "file"]
                  ELSE ends)

\* for p in packages: if p["name"] == r["source"]: ... elif p["name"] == r["target"]: ...
RECURSIVE ScanPackages(_, _, _)
ScanPackages(r, ps, ends) ==
  IF ps = <<>> THEN ends
  ELSE LET n == Head(ps)["name"]
       IN  ScanPackages(r, Tail(ps),
             IF n = r.source
             THEN [ends EXCEPT !.source = Some(n)]
             ELSE IF n = r.target
                  THEN [ends EXCEPT !.target = Some(n)]
                  ELSE ends)

ResolveEnds(r, fs, ps) == ScanPackages(r, ps, ScanFiles(r, fs, NoEnds))

\* The relationship main() appends for r once both ends are resolved
Rebuilt(r, ends) ==
  [source |-> ends.source[1], type |-> r.type, target |-> ends.target[1],
   source_type |-> ends.source_type, target_type |-> ends.target_type]

\* "for r in relationship1" / "for r in relationship2"
RECURSIVE RebuildRelationships(_, _, _, _)
RebuildRelationships(rs, fs, ps, out) ==
  IF rs = <<>> THEN out
  ELSE LET ends == ResolveEnds(Head(rs), fs, ps)
       IN  RebuildRelationships(Tail(rs), fs, ps,
             IF ends.source # None /\ ends.target # None
             THEN Append(out, Rebuilt(Head(rs), ends))
             ELSE out)

\* "for p in packages": one CONTAINS edge per key, in the dict's order
ContainsEdges(root, pkgs) ==
  [i \in 1..Len(pkgs) |->
     Relationship(root, "CONTAINS",
                  IF pkgs[i].key[1] = None THEN None ELSE pkgs[i].key[1][1])]

\* Python's "a or b" on integers
PyOr(a, b) == IF a # 0 THEN a ELSE b

\* (updated_info or additional_info or merged_info) != 0
ReturnCode(cnt) ==
  IF PyOr(PyOr(cnt.updated, cnt.additional), cnt.merged) # 0 THEN 1 ELSE 0

-----------------------------------------------------------------------------
(* State *)

VARIABLES
  pc,              \* the section of main() to run next
  FILE1, FILE2,    \* args.FILE1, args.FILE2
  disk,            \* existing paths and the document the parser reads from each
  files1, packages1, relationship1,
  files2, packages2, relationship2,
  files, packages, relationships,   \* the merged collections
  counters,        \* identical_info, updated_info, additional_info, merged_info
  info,            \* messages logged with logger.info
  output,          \* the project name handed to SBOMGenerator.generate, if any
  ret              \* main()'s return value once pc = "done"

inputs == << FILE1, FILE2, disk >>
parsed == << files1, packages1, relationship1,
             files2, packages2, relationship2 >>
merged == << files, packages, relationships, counters >>
vars == << pc, inputs, parsed, merged, info, output, ret >>

\* The state at the start of main(): the arguments, the files on disk and what
\* the parser will read from them.  Documents vary for the argument pair
\* (PathA, PathB) with both files present; every other combination of
\* arguments and existing files comes with empty documents.
InitWith(filePool, packagePool, relationshipPool, max) ==
  /\ pc = "validate"
  /\ FILE1 \in Paths
  /\ FILE2 \in Paths
  /\ \E existing \in SUBSET Paths :
       IF existing = Paths /\ FILE1 = PathA /\ FILE2 = PathB
       THEN \E f1 \in SeqsUpTo(filePool, max) :
            \E f2 \in SeqsUpTo(filePool, max - Len(f1)) :
            \E p1 \in SeqsUpTo(packagePool, max - Len(f1) - Len(f2)) :
            \E p2 \in SeqsUpTo(packagePool,
                               max - Len(f1) - Len(f2) - Len(p1)) :
            \E r1 \in SeqsUpTo(relationshipPool,
                               max - Len(f1) - Len(f2) - Len(p1) - Len(p2)) :
            \E r2 \in SeqsUpTo(relationshipPool,
                               max - Len(f1) - Len(f2) - Len(p1) - Len(p2)
                                   - Len(r1)) :
              disk = (PathA :> [files |-> f1, packages |-> p1,
                                relationships |-> r1])
                  @@ (PathB :> [files |-> f2, packages |-> p2,
                                relationships |-> r2])
       ELSE disk = [p \in existing |-> EmptyDocument]
  /\ files1 = <<>> /\ packages1 = <<>> /\ relationship1 = <<>>
  /\ files2 = <<>> /\ packages2 = <<>> /\ relationship2 = <<>>
  /\ files = <<>> /\ packages = <<>> /\ relationships = <<>>
  /\ counters = ZeroCounters
  /\ info = <<>>
  /\ output = None
  /\ ret = 0

Init == InitWith(FilePool, PackagePool, RelationshipPool, MaxItems)

InitGraph ==
  InitWith(GraphFilePool, GraphPackagePool, GraphRelationshipPool,
           MaxGraphItems)

Exists(path) == path \in DOMAIN disk

-----------------------------------------------------------------------------
(* main(), section by section *)

\* Variant: only the existence of the files is checked
ValidateExistenceOnly ==
  /\ pc = "validate"
  /\ info' = info
        \o (IF Exists(FILE1) THEN <<>> ELSE << <<FILE1, "does not exist">> >>)
        \o (IF Exists(FILE2) THEN <<>> ELSE << <<FILE2, "does not exist">> >>)
  /\ IF Exists(FILE1) /\ Exists(FILE2)
     THEN pc' = "parse" /\ ret' = ret
     ELSE pc' = "done" /\ ret' = -1
  /\ UNCHANGED << inputs, parsed, merged, output >>

\* "Validate CLI parameters"
Validate ==
  /\ pc = "validate"
  /\ IF FILE1 # FILE2
     THEN /\ info' = info
                \o (IF Exists(FILE1) THEN <<>>
                    ELSE << <<FILE1, "does not exist">> >>)
                \o (IF Exists(FILE2) THEN <<>>
                    ELSE << <<FILE2, "does not exist">> >>)
          /\ IF Exists(FILE1) /\ Exists(FILE2)
             THEN pc' = "parse" /\ ret' = ret
             ELSE pc' = "done" /\ ret' = -1
     ELSE /\ info' = Append(info, << "Must specify different filenames." >>)
          /\ pc' = "done"
          /\ ret' = -1
  /\ UNCHANGED << inputs, parsed, merged, output >>

\* parser.parse_file(FILE1) ... parser.parse_file(FILE2) and the get_* calls
Parse ==
  /\ pc = "parse"
  /\ files1' = disk[FILE1].files
  /\ packages1' = disk[FILE1].packages
  /\ relationship1' = disk[FILE1].relationships
  /\ files2' = disk[FILE2].files
  /\ packages2' = disk[FILE2].packages
  /\ relationship2' = disk[FILE2].relationships
  /\ pc' = "files"
  /\ UNCHANGED << inputs, merged, info, output, ret >>

\* "Process files": both loops
ProcessFiles ==
  /\ pc = "files"
  /\ LET a == FilesOfFirst(files1, files2, <<>>, counters)
         b == FilesOfSecond(files2, files1, a.files, a.cnt)
     IN  /\ files' = b.files
         /\ counters' = b.cnt
  /\ pc' = "root"
  /\ UNCHANGED << inputs, parsed, packages, relationships, info, output, ret >>

\* "Create root package" and its DESCRIBES relationship
CreateRoot ==
  /\ pc = "root"
  /\ LET root == RootPackage(FILE1, FILE2)
     IN  /\ packages' = Put(<<>>, PackageKey(root), root)
         /\ relationships' = << Relationship(ParentName(FILE1, FILE2),
                                             "DESCRIBES", root["name"]) >>
  /\ pc' = "packages"
  /\ UNCHANGED << inputs, parsed, files, counters, info, output, ret >>

\* The two package loops
ProcessPackages ==
  /\ pc = "packages"
  /\ LET a == PackagesOfFirst(packages1, packages2, packages, counters, info)
         b == PackagesOfSecond(packages2, packages1, a.packages, a.cnt)
     IN  /\ packages' = b.packages
         /\ counters' = b.cnt
         /\ info' = a.log
  /\ pc' = "relationships"
  /\ UNCHANGED << inputs, parsed, files, relationships, output, ret >>

\* Variant: the relationships of the second document are rebuilt first
ProcessRelationshipsSecondFirst ==
  /\ pc = "relationships"
  /\ LET a == RebuildRelationships(relationship2, files2, packages2,
                                   relationships)
         b == RebuildRelationships(relationship1, files1, packages1, a)
     IN  relationships' =
           b \o ContainsEdges(RootPackageName(FILE1, FILE2), packages)
  /\ pc' = "generate"
  /\ UNCHANGED << inputs, parsed, files, packages, counters, info, output, ret >>

\* "Now process relationships": both documents, then the CONTAINS edges
ProcessRelationships ==
  /\ pc = "relationships"
  /\ LET a == RebuildRelationships(relationship1, files1, packages1,
                                   relationships)
         b == RebuildRelationships(relationship2, files2, packages2, a)
     IN  relationships' =
           b \o ContainsEdges(RootPackageName(FILE1, FILE2), packages)
  /\ pc' = "generate"
  /\ UNCHANGED << inputs, parsed, files, packages, counters, info, output, ret >>

\* "Generate SBOM file" and the return code
Generate ==
  /\ pc = "generate"
  /\ output' = Some(ParentName(FILE1, FILE2))
  /\ ret' = ReturnCode(counters)
  /\ pc' = "done"
  /\ UNCHANGED << inputs, parsed, merged, info >>

Next ==
  \/ Validate
  \/ Parse
  \/ ProcessFiles
  \/ CreateRoot
  \/ ProcessPackages
  \/ ProcessRelationships
  \/ Generate

Spec == Init /\ [][Next]_vars

SpecGraph == InitGraph /\ [][Next]_vars

Done == pc = "done"
Merged == pc = "done" /\ output # None

-----------------------------------------------------------------------------
(* Vocabulary of the properties *)

\* Reading a merged collection: its keys, and the value under a key
Keys(d) == { d[i].key : i \in 1..Len(d) }
Lookup(d, key) == (CHOOSE i \in 1..Len(d) : d[i].key = key)
ValueAt(d, key) == d[Lookup(d, key)].val

RootName == RootPackageName(FILE1, FILE2)
DocumentRoot == ParentName(FILE1, FILE2)

NamesOf(recs) == { recs[i]["name"] : i \in 1..Len(recs) }
FileKeyNames == { k[1] : k \in Keys(files) \ {None} }
PackageKeyNames == { k[1][1] : k \in { q \in Keys(packages) : q[1] # None } }

Triple(r) == [source |-> r.source, type |-> r.type, target |-> r.target]
Triples(rs) == [i \in 1..Len(rs) |-> Triple(rs[i])]

\* The relationships between the DESCRIBES edge and the CONTAINS edges
RebuiltPart ==
  SubSeq(relationships, 2, Len(relationships) - Len(packages))

\* The relationships of a document that main() resolved at both ends
EmittedOf(rs, fs, ps) ==
  SelectSeq(rs, LAMBDA r : LET e == ResolveEnds(r, fs, ps)
                           IN  e.source # None /\ e.target # None)

\* C7: when the two file arguments are equal or one of the files does not
\* exist, main() returns -1 right after validation, before anything is parsed,
\* merged, counted or generated; when they differ and both exist, validation
\* passes and the run goes on to generate the merged document.
BoundaryRejection ==
  LET invalid == FILE1 = FILE2 \/ ~Exists(FILE1) \/ ~Exists(FILE2)
  IN  /\ invalid => pc \in {"validate", "done"}
      /\ (invalid /\ pc = "done") =>
            /\ ret = -1
            /\ parsed = << <<>>, <<>>, <<>>, <<>>, <<>>, <<>> >>
            /\ merged = << <<>>, <<>>, <<>>, ZeroCounters >>
            /\ output = None
      /\ (~invalid /\ pc = "done") => (output # None /\ ret \in {0, 1})

RejectedSameFile ==
  pc = "done" /\ FILE1 = FILE2 /\ Exists(FILE1) /\ ret = -1

\* C6: the merged relationship sequence is the DESCRIBES edge from the
\* document root to the root package, then the emitted relationships of the
\* first document in input order, then those of the second document in input
\* order, then one CONTAINS edge from the root package per entry of the merged
\* package collection, the root package's own entry included.
RelationshipOrdering ==
  Merged =>
    LET n == Len(relationships)
        k == Len(packages)
    IN  /\ Cardinality(Keys(packages)) = k
        /\ PackageKey(RootPackage(FILE1, FILE2)) \in Keys(packages)
        /\ n >= 1 + k
        /\ relationships[1] = Relationship(DocumentRoot, "DESCRIBES", RootName)
        /\ Triples(RebuiltPart) =
             Triples(EmittedOf(relationship1, files1, packages1))
               \o Triples(EmittedOf(relationship2, files2, packages2))
        /\ \A i \in 1..k :
             relationships[n - k + i] =
               Relationship(RootName, "CONTAINS", packages[i].key[1][1])

OrderedBothDocuments ==
  /\ Merged
  /\ EmittedOf(relationship1, files1, packages1) # <<>>
  /\ EmittedOf(relationship2, files2, packages2) # <<>>
  /\ Triples(EmittedOf(relationship1, files1, packages1))
       # Triples(EmittedOf(relationship2, files2, packages2))
  /\ Len(packages) > 1

\* C4 as amended: at the end of a merge run both ends of every relationship
\* name a key of the merged files, the name of a key of the merged packages,
\* the root package, or the document root that DESCRIBES the root package.
EndpointsKnownOrDocumentRoot ==
  Merged =>
    \A i \in 1..Len(relationships) :
      {relationships[i].source, relationships[i].target} \subseteq
        FileKeyNames \cup PackageKeyNames \cup {RootName, DocumentRoot}

RebuiltEdgesOfBoth ==
  /\ Merged
  /\ EmittedOf(relationship1, files1, packages1) # <<>>
  /\ EmittedOf(relationship2, files2, packages2) # <<>>

\* C4: at the end of a merge run both ends of every relationship name a key
\* of the merged files, the name of a key of the merged packages, or the root
\* package.
EndpointsKnown ==
  Merged =>
    \A i \in 1..Len(relationships) :
      {relationships[i].source, relationships[i].target} \subseteq
        FileKeyNames \cup PackageKeyNames \cup {RootName}

\* The record the merged collection holds under a key (the empty record when
\* the key is absent)
StoredFile(file) ==
  IF GetValue(file, "name") \in Keys(files)
  THEN ValueAt(files, GetValue(file, "name")) ELSE <<>>
StoredPackage(package) ==
  IF PackageKey(package) \in Keys(packages)
  THEN ValueAt(packages, PackageKey(package)) ELSE <<>>

\* Attributes two records both carry, with different values
Differing(r1, r2) == { x \in DOMAIN r1 \cap DOMAIN r2 : r1[x] # r2[x] }

\* The value the conflict policy prescribes
Prescribed(r1, r2, x) == IF r1[x] = NOASSERTION THEN r2[x] ELSE r1[x]

\* rec is the only record of its name in its document, so that "the merged
\* record of that entity" is one record
Single(rec, recs) ==
  Cardinality({ i \in 1..Len(recs) : recs[i]["name"] = rec["name"] }) = 1

\* r1 (first document) and r2 (second document) describe the same entity
Matched(r1, recs1, r2, recs2) ==
  r1["name"] = r2["name"] /\ Single(r1, recs1) /\ Single(r2, recs2)

HoldsPrescribed(stored, r1, r2) ==
  \A x \in Differing(r1, r2) :
    x \in DOMAIN stored /\ stored[x] = Prescribed(r1, r2, x)

\* C1: for a record r1 of the first document and a record r2 of the second
\* that share a name (files, and packages without a version mismatch), every
\* attribute both carry with different values is stored in the merged record
\* with r2's value when r1's is NOASSERTION and with r1's value otherwise.
FirstOperandBias ==
  Merged =>
    /\ \A i \in 1..Len(files1) : \A j \in 1..Len(files2) :
         Matched(files1[i], files1, files2[j], files2) =>
           HoldsPrescribed(StoredFile(files1[i]), files1[i], files2[j])
    /\ \A i \in 1..Len(packages1) : \A j \in 1..Len(packages2) :
         ( /\ Matched(packages1[i], packages1, packages2[j], packages2)
           /\ ~VersionMismatch(packages1[i], packages2[j]) ) =>
           HoldsPrescribed(StoredPackage(packages1[i]),
                           packages1[i], packages2[j])

\* C2: for a record r1 of the first document and a record r2 of the second
\* with the same name (and, for packages, the same version), the merged record
\* of that entity carries exactly the union of the attributes of r1 and r2.
UnionCompleteness ==
  Merged =>
    /\ \A i \in 1..Len(files1) : \A j \in 1..Len(files2) :
         Matched(files1[i], files1, files2[j], files2) =>
           DOMAIN StoredFile(files1[i]) =
             DOMAIN files1[i] \cup DOMAIN files2[j]
    /\ \A i \in 1..Len(packages1) : \A j \in 1..Len(packages2) :
         ( /\ Matched(packages1[i], packages1, packages2[j], packages2)
           /\ PackageKey(packages1[i]) = PackageKey(packages2[j]) ) =>
           DOMAIN StoredPackage(packages1[i]) =
             DOMAIN packages1[i] \cup DOMAIN packages2[j]

\* C3: for a package of the first document and a package of the second that
\* share a name and both carry a version, with different values, a version
\* mismatch is reported for the pair, neither record is reconciled into the
\* other (each key still holds its own version), and the run completes.
VersionVeto ==
  Done =>
    \A i \in 1..Len(packages1) : \A j \in 1..Len(packages2) :
      ( /\ packages1[i]["name"] = packages2[j]["name"]
        /\ VersionMismatch(packages1[i], packages2[j]) ) =>
        /\ Merged
        /\ MismatchMessage(packages1[i], packages2[j]) \in Range(info)
        /\ GetValue(StoredPackage(packages1[i]), "version")
             = GetValue(packages1[i], "version")
        /\ GetValue(StoredPackage(packages2[j]), "version")
             = GetValue(packages2[j], "version")

\* C5: a relationship of a source document is emitted exactly when its source
\* and its target (equal or not) each name a file or a package of that
\* document; the emitted relationship keeps source, type and target, and an
\* end is classified file when it names a file of the document, package
\* otherwise.
ClaimedEdge(r, fs) ==
  [source |-> r.source, type |-> r.type, target |-> r.target,
   source_type |-> IF r.source \in NamesOf(fs) THEN "file" ELSE "package",
   target_type |-> IF r.target \in NamesOf(fs) THEN "file" ELSE "package"]

ClaimedEdges(rs, fs, ps) ==
  LET kept == SelectSeq(rs, LAMBDA r :
                {r.source, r.target} \subseteq NamesOf(fs) \cup NamesOf(ps))
  IN  [i \in 1..Len(kept) |-> ClaimedEdge(kept[i], fs)]

RelationshipResolution ==
  Merged =>
    RebuiltPart = ClaimedEdges(relationship1, files1, packages1)
                    \o ClaimedEdges(relationship2, files2, packages2)

\* C8: when the documents hold one package each, of the same name and version,
\* whose records differ in k attributes both carry, the run ends with the
\* updated counter at k, a single merged package of that name and version
\* holding the resolved values, and a CONTAINS edge from the root package to it.
UpdatedCount ==
  ( /\ Merged
    /\ files1 = <<>> /\ files2 = <<>>
    /\ Len(packages1) = 1 /\ Len(packages2) = 1
    /\ PackageKey(packages1[1]) = PackageKey(packages2[1]) ) =>
    /\ counters.updated = Cardinality(Differing(packages1[1], packages2[1]))
    /\ Len(packages) = 2
    /\ HoldsPrescribed(StoredPackage(packages1[1]), packages1[1], packages2[1])
    /\ Relationship(RootName, "CONTAINS", packages1[1]["name"])
         \in Range(relationships)

\* C9: a run that passes validation returns 0 exactly when the two documents
\* have the same file records and the same package records, and 1 otherwise.
OutcomeSignal ==
  Merged =>
    ( ret = 0 <=> ( /\ Range(files1) = Range(files2)
                    /\ Range(packages1) = Range(packages2) ) )

\* C10: at the end of a run the name of every input file is a key of the
\* merged files, the (name, version) of every input package is a key of the
\* merged packages, and the root package's entry is the synthesised record.
NoEntityLost ==
  Merged =>
    /\ \A f \in Range(files1) \cup Range(files2) :
         GetValue(f, "name") \in Keys(files)
    /\ \A p \in Range(packages1) \cup Range(packages2) :
         PackageKey(p) \in Keys(packages)
    /\ StoredPackage(RootPackage(FILE1, FILE2)) = RootPackage(FILE1, FILE2)

====
